---- MODULE Spec2Model ----
(***************************************************************************)
(* Model of src/server.py: the two MCP tools develop_and_create_project    *)
(* and create_notion_project_page, run as concurrent invocations against   *)
(* the three external providers (completion API, GitHub, Notion).          *)
(* A step of an invocation runs from one answer of a provider (or from the *)
(* invocation itself) to the next external call it issues and blocks on,   *)
(* or to its return or exception; every call is logged when it is issued   *)
(* and marked when it is answered.                                         *)
(***************************************************************************)
EXTENDS Integers, Sequences, FiniteSets, TLC

(* ---------------------------- bounds ----------------------------------- *)
NumInv == 2
NumNames == 2
NumTexts == 2

(* ------------------------- program constants --------------------------- *)
StatusOK == 200

Invocations == 1..NumInv
Names == 1..NumNames
Ideas == {"A tool that reminds me to drink water"}
Text(t) == "# Project Overview v" \o ToString(t)
Texts == {Text(t) : t \in 1..NumTexts}
ErrorCodes == {404, 500}
Bodies == {"object_with_url", "object_without_url", "array", "not_json"}

NameStr(n) == "project-" \o ToString(n)
HtmlUrl(n) == "https://github.com/user/" \o NameStr(n)
PageUrl(n) == "https://www.notion.so/" \o NameStr(n)

CommitMessage == "Initial project specification"
AutoInitReadme == "auto_init README"
NotConfigured == "Notion integration not configured"
NoUrl == "Page created but URL not available"
(* variant: the diagnostic string without the status code                  *)
ErrorString_NoCode(code) == "Error creating Notion page"

ErrorString(code) == "Error creating Notion page: " \o ToString(code)

(* names of the external calls *)
MessagesCreate == "messages.create"
CreateRepo == "create_repo"
CreateFile == "create_file"
RequestsPost == "requests.post"

(* exceptions that leave a tool *)
CompletionError == "anthropic.APIError"
DuplicateName == "GithubException 422 name already exists"
ProviderError == "GithubException"
CommitError == "GithubException create_file"
ConnectionError == "requests.ConnectionError"
JSONDecodeError == "JSONDecodeError"
AttributeError == "AttributeError"

VARIABLES
    env,            \* os.environ: which Notion variables are set
    pc,             \* position of each invocation
    args,           \* arguments of each invocation
    existed,        \* did the repository name exist when the invocation began
    developed_spec, \* local developed_spec
    repo,           \* local repo handle (its html_url)
    response,       \* local response of requests.post
    notion_page,    \* value returned by create_notion_project_page
    result,         \* value returned by develop_and_create_project
    raised,         \* exception that left the tool
    calls,          \* external calls issued by each invocation, in order
    repos,          \* GitHub: repositories of the user
    pages           \* Notion: pages of the database

vars == <<env, pc, args, existed, developed_spec, repo, response, notion_page,
          result, raised, calls, repos, pages>>

locals == <<developed_spec, repo, response, notion_page, result, raised>>

NoArgs == [tool |-> "none", idea |-> "", project_name |-> 0, create_notion_page |-> FALSE]
NoResult == [pending |-> TRUE]
NoResponse == [status_code |-> 0, body |-> "none"]
NoRepository == [exists |-> FALSE, creators |-> {}, readme |-> "", commits |-> <<>>]

Last(s) == s[Len(s)]
Issue(log, api, payload) == Append(log, [api |-> api, payload |-> payload, outcome |-> "pending"])
Answer(log, o) == [log EXCEPT ![Len(log)].outcome = o]
InFlight(i) == {k \in 1..Len(calls[i]) : calls[i][k].outcome = "pending"}
Issued(i, api) == \E k \in 1..Len(calls[i]) : calls[i][k].api = api
Failed(i, api) == \E k \in 1..Len(calls[i]) : calls[i][k].api = api /\ calls[i][k].outcome = "error"

(* Project names and completion texts are numbered in the order in which   *)
(* they first appear: the next one is one used before or the first unused. *)
UsedNames == {args[j].project_name : j \in Invocations} \ {0}
NextNames == {n \in Names : n <= Cardinality(UsedNames) + 1}
UsedTexts == {developed_spec[j] : j \in Invocations} \ {""}
NextTexts == {Text(t) : t \in {u \in 1..NumTexts : u <= Cardinality(UsedTexts) + 1}}

Init ==
    /\ env \in [NOTION_API_KEY : BOOLEAN, NOTION_DATABASE_ID : BOOLEAN]
    /\ pc = [i \in Invocations |-> "idle"]
    /\ args = [i \in Invocations |-> NoArgs]
    /\ existed = [i \in Invocations |-> FALSE]
    /\ developed_spec = [i \in Invocations |-> ""]
    /\ repo = [i \in Invocations |-> ""]
    /\ response = [i \in Invocations |-> NoResponse]
    /\ notion_page = [i \in Invocations |-> ""]
    /\ result = [i \in Invocations |-> NoResult]
    /\ raised = [i \in Invocations |-> "none"]
    /\ calls = [i \in Invocations |-> <<>>]
    /\ repos = [n \in Names |-> NoRepository]
    /\ pages = {}

(* result = {"github_url": ..., "spec": ..., "status": "success"}           *)
NewResult(i) ==
    [github_url |-> repo[i], spec |-> developed_spec[i], status |-> "success"]

(* result["notion_url"] = notion_page                                      *)
WithNotionUrl(res, s) ==
    [github_url |-> res.github_url, spec |-> res.spec, status |-> res.status, notion_url |-> s]

(* variant: the gate ignores the create_notion_page flag                   *)
NotionGate_KeyOnly(i) == env.NOTION_API_KEY

(* the gate in front of the optional step                                  *)
NotionGate(i) == args[i].create_notion_page /\ env.NOTION_API_KEY

(* if not notion_api_key or not notion_database_id                         *)
Configured == env.NOTION_API_KEY /\ env.NOTION_DATABASE_ID

(* create_notion_project_page is entered by invocation i, whose call log   *)
(* is log and whose result so far is res, with the argument github_url:    *)
(* it returns the sentinel when a credential is missing, otherwise it      *)
(* issues requests.post and waits for the answer.  When the tool           *)
(* develop_and_create_project made the call, a returned value goes into    *)
(* result["notion_url"] and result is returned.                            *)
NotionEntry(i, tool, log, res, github_url) ==
    IF ~Configured
    THEN /\ notion_page' = [notion_page EXCEPT ![i] = NotConfigured]
         /\ result' = [result EXCEPT ![i] =
                            IF tool = "develop" THEN WithNotionUrl(res, NotConfigured) ELSE res]
         /\ calls' = [calls EXCEPT ![i] = log]
         /\ pc' = [pc EXCEPT ![i] = "returned"]
    ELSE /\ calls' = [calls EXCEPT ![i] = Issue(log, RequestsPost, github_url)]
         /\ result' = [result EXCEPT ![i] = res]
         /\ pc' = [pc EXCEPT ![i] = "posting"]
         /\ UNCHANGED notion_page

(* variant: the repository creation is issued together with the completion *)
InvokeDevelop_Parallel(i, idea, name, flag) ==
    /\ pc[i] = "idle"
    /\ i > 1 => pc[i - 1] # "idle"
    /\ args' = [args EXCEPT ![i] = [tool |-> "develop", idea |-> idea, project_name |-> name,
                                    create_notion_page |-> flag]]
    /\ existed' = [existed EXCEPT ![i] = repos[name].exists]
    /\ calls' = [calls EXCEPT ![i] = Issue(Issue(@, MessagesCreate, idea), CreateRepo, NameStr(name))]
    /\ pc' = [pc EXCEPT ![i] = "expanding"]
    /\ UNCHANGED <<env, locals, repos, pages>>

(* A client invokes the tool develop_and_create_project, which issues      *)
(* 1. client.messages.create(...) and waits for the answer.  Invocations   *)
(* are numbered in the order in which they arrive.                         *)
InvokeDevelop(i, idea, name, flag) ==
    /\ pc[i] = "idle"
    /\ i > 1 => pc[i - 1] # "idle"
    /\ args' = [args EXCEPT ![i] = [tool |-> "develop", idea |-> idea, project_name |-> name,
                                    create_notion_page |-> flag]]
    /\ existed' = [existed EXCEPT ![i] = repos[name].exists]
    /\ calls' = [calls EXCEPT ![i] = Issue(@, MessagesCreate, idea)]
    /\ pc' = [pc EXCEPT ![i] = "expanding"]
    /\ UNCHANGED <<env, locals, repos, pages>>

(* A client invokes the tool create_notion_project_page directly.          *)
InvokeNotion(i, idea, name) ==
    /\ pc[i] = "idle"
    /\ i > 1 => pc[i - 1] # "idle"
    /\ args' = [args EXCEPT ![i] = [tool |-> "notion", idea |-> idea, project_name |-> name,
                                    create_notion_page |-> FALSE]]
    /\ existed' = [existed EXCEPT ![i] = repos[name].exists]
    /\ NotionEntry(i, "notion", calls[i], result[i], HtmlUrl(name))
    /\ UNCHANGED <<env, developed_spec, repo, response, raised, repos, pages>>

(* developed_spec = response.content[0].text; then                         *)
(* 2. user.create_repo(name=project_name, ..., auto_init=True) is issued   *)
CompletionReturns(i, text) ==
    /\ pc[i] = "expanding"
    /\ developed_spec' = [developed_spec EXCEPT ![i] = text]
    /\ calls' = [calls EXCEPT ![i] = Issue(Answer(@, "ok"), CreateRepo, NameStr(args[i].project_name))]
    /\ pc' = [pc EXCEPT ![i] = "creating_repo"]
    /\ UNCHANGED <<env, args, existed, repo, response, notion_page, result, raised, repos, pages>>

(* variant: the completion error is caught and the chain goes on           *)
CompletionFails_Swallowed(i) ==
    /\ pc[i] = "expanding"
    /\ calls' = [calls EXCEPT ![i] = Issue(Answer(@, "error"), CreateRepo, NameStr(args[i].project_name))]
    /\ pc' = [pc EXCEPT ![i] = "creating_repo"]
    /\ UNCHANGED <<env, args, existed, locals, repos, pages>>

(* the completion call raises; nothing catches it                          *)
CompletionFails(i) ==
    /\ pc[i] = "expanding"
    /\ calls' = [calls EXCEPT ![i] = Answer(@, "error")]
    /\ raised' = [raised EXCEPT ![i] = CompletionError]
    /\ pc' = [pc EXCEPT ![i] = "raised"]
    /\ UNCHANGED <<env, args, existed, developed_spec, repo, response, notion_page, result, repos, pages>>

(* GitHub creates the repository, initialised with a default README; then  *)
(* 3. repo.create_file("README.md", message, developed_spec) is issued     *)
CreateRepoReturns(i) ==
    /\ pc[i] = "creating_repo"
    /\ ~repos[args[i].project_name].exists
    /\ repos' = [repos EXCEPT ![args[i].project_name] =
                    [exists |-> TRUE, creators |-> {i}, readme |-> AutoInitReadme, commits |-> <<>>]]
    /\ repo' = [repo EXCEPT ![i] = HtmlUrl(args[i].project_name)]
    /\ calls' = [calls EXCEPT ![i] = Issue(Answer(@, "ok"), CreateFile, developed_spec[i])]
    /\ pc' = [pc EXCEPT ![i] = "creating_file"]
    /\ UNCHANGED <<env, args, existed, developed_spec, response, notion_page, result, raised, pages>>

(* variant: on a duplicate name the existing repository is fetched and used *)
CreateRepoFails_GetExisting(i, exc) ==
    /\ pc[i] = "creating_repo"
    /\ exc = DuplicateName <=> repos[args[i].project_name].exists
    /\ IF exc = DuplicateName
       THEN /\ repo' = [repo EXCEPT ![i] = HtmlUrl(args[i].project_name)]
            /\ calls' = [calls EXCEPT ![i] = Issue(Answer(@, "error"), CreateFile, developed_spec[i])]
            /\ pc' = [pc EXCEPT ![i] = "creating_file"]
            /\ UNCHANGED raised
       ELSE /\ raised' = [raised EXCEPT ![i] = exc]
            /\ calls' = [calls EXCEPT ![i] = Answer(@, "error")]
            /\ pc' = [pc EXCEPT ![i] = "raised"]
            /\ UNCHANGED repo
    /\ UNCHANGED <<env, args, existed, developed_spec, response, notion_page, result, repos, pages>>

(* GitHub rejects the call (name taken, or authentication / rate limit);   *)
(* the exception is not caught                                             *)
CreateRepoFails(i, exc) ==
    /\ pc[i] = "creating_repo"
    /\ exc = DuplicateName <=> repos[args[i].project_name].exists
    /\ calls' = [calls EXCEPT ![i] = Answer(@, "error")]
    /\ raised' = [raised EXCEPT ![i] = exc]
    /\ pc' = [pc EXCEPT ![i] = "raised"]
    /\ UNCHANGED <<env, args, existed, developed_spec, repo, response, notion_page, result, repos, pages>>

(* GitHub records the commit; result is built; 4. behind the gate          *)
(* create_notion_project_page is called, otherwise result is returned      *)
CreateFileReturns(i) ==
    /\ pc[i] = "creating_file"
    /\ repos' = [repos EXCEPT ![args[i].project_name] =
                    [@ EXCEPT !.readme = Last(calls[i]).payload,
                              !.commits = Append(@, [by |-> i, path |-> "README.md",
                                                     message |-> CommitMessage,
                                                     content |-> Last(calls[i]).payload])]]
    /\ IF NotionGate(i)
       THEN NotionEntry(i, "develop", Answer(calls[i], "ok"), NewResult(i), repo[i])
       ELSE /\ calls' = [calls EXCEPT ![i] = Answer(@, "ok")]
            /\ result' = [result EXCEPT ![i] = NewResult(i)]
            /\ pc' = [pc EXCEPT ![i] = "returned"]
            /\ UNCHANGED notion_page
    /\ UNCHANGED <<env, args, existed, developed_spec, repo, response, raised, pages>>

(* variant: the commit error is caught and the result is returned          *)
CreateFileFails_Swallowed(i) ==
    /\ pc[i] = "creating_file"
    /\ calls' = [calls EXCEPT ![i] = Answer(@, "error")]
    /\ result' = [result EXCEPT ![i] = NewResult(i)]
    /\ pc' = [pc EXCEPT ![i] = "returned"]
    /\ UNCHANGED <<env, args, existed, developed_spec, repo, response, notion_page, raised, repos, pages>>

(* the commit is rejected; the exception is not caught                     *)
CreateFileFails(i) ==
    /\ pc[i] = "creating_file"
    /\ calls' = [calls EXCEPT ![i] = Answer(@, "error")]
    /\ raised' = [raised EXCEPT ![i] = CommitError]
    /\ pc' = [pc EXCEPT ![i] = "raised"]
    /\ UNCHANGED <<env, args, existed, developed_spec, repo, response, notion_page, result, repos, pages>>

(* variant: the request is retried after a transport failure               *)
PostFails_Retry(i) ==
    /\ pc[i] = "posting"
    /\ calls' = [calls EXCEPT ![i] = Issue(Answer(@, "error"), RequestsPost, Last(@).payload)]
    /\ UNCHANGED <<env, pc, args, existed, locals, repos, pages>>

(* requests.post raises (connection refused, timeout, ...); not caught     *)
PostFails(i) ==
    /\ pc[i] = "posting"
    /\ calls' = [calls EXCEPT ![i] = Answer(@, "error")]
    /\ raised' = [raised EXCEPT ![i] = ConnectionError]
    /\ pc' = [pc EXCEPT ![i] = "raised"]
    /\ UNCHANGED <<env, args, existed, developed_spec, repo, response, notion_page, result, repos, pages>>

(* response.json().get("url", default): the value, or the exception        *)
JsonGetUrl(body, name) ==
    CASE body = "object_with_url" -> [exc |-> "none", value |-> PageUrl(name)]
      [] body = "object_without_url" -> [exc |-> "none", value |-> NoUrl]
      [] body = "array" -> [exc |-> AttributeError, value |-> ""]
      [] OTHER -> [exc |-> JSONDecodeError, value |-> ""]

(* what the function does with a response                                  *)
Interpret(resp, name) ==
    IF resp.status_code = StatusOK
    THEN JsonGetUrl(resp.body, name)
    ELSE [exc |-> "none", value |-> ErrorString(resp.status_code)]

(* variant: the repository is deleted when the page could not be created   *)
ReposAfterPost_Rollback(i, resp) ==
    IF resp.status_code = StatusOK THEN repos
    ELSE [repos EXCEPT ![args[i].project_name] = NoRepository]

(* the repositories after an answer of Notion: the code leaves them alone  *)
ReposAfterPost(i, resp) == repos

(* Notion answers with an HTTP response; the function interprets it and    *)
(* returns a string or raises; develop_and_create_project stores the       *)
(* string in result["notion_url"] and returns result                       *)
PostReturns(i, resp) ==
    /\ pc[i] = "posting"
    /\ calls' = [calls EXCEPT ![i] = Answer(@, "ok")]
    /\ response' = [response EXCEPT ![i] = resp]
    /\ pages' = IF resp.status_code = StatusOK
                THEN pages \cup {[name |-> args[i].project_name, github |-> Last(calls[i]).payload,
                                  idea |-> args[i].idea, by |-> i]}
                ELSE pages
    /\ repos' = ReposAfterPost(i, resp)
    /\ LET r == Interpret(resp, args[i].project_name) IN
         IF r.exc = "none"
         THEN /\ notion_page' = [notion_page EXCEPT ![i] = r.value]
              /\ result' = [result EXCEPT ![i] =
                                IF args[i].tool = "develop" THEN WithNotionUrl(@, r.value) ELSE @]
              /\ pc' = [pc EXCEPT ![i] = "returned"]
              /\ UNCHANGED raised
         ELSE /\ raised' = [raised EXCEPT ![i] = r.exc]
              /\ pc' = [pc EXCEPT ![i] = "raised"]
              /\ UNCHANGED <<notion_page, result>>
    /\ UNCHANGED <<env, args, existed, developed_spec, repo>>

Responses ==
    [status_code : {StatusOK}, body : Bodies]
        \cup [status_code : ErrorCodes, body : {"object_without_url"}]

Next ==
    \/ \E i \in Invocations, idea \in Ideas, name \in NextNames, flag \in BOOLEAN :
            InvokeDevelop(i, idea, name, flag)
    \/ \E i \in Invocations, idea \in Ideas, name \in NextNames : InvokeNotion(i, idea, name)
    \/ \E i \in Invocations, text \in NextTexts : CompletionReturns(i, text)
    \/ \E i \in Invocations : CompletionFails(i)
    \/ \E i \in Invocations : CreateRepoReturns(i)
    \/ \E i \in Invocations, exc \in {DuplicateName, ProviderError} : CreateRepoFails(i, exc)
    \/ \E i \in Invocations : CreateFileReturns(i)
    \/ \E i \in Invocations : CreateFileFails(i)
    \/ \E i \in Invocations : PostFails(i)
    \/ \E i \in Invocations, resp \in Responses : PostReturns(i, resp)

Spec == Init /\ [][Next]_vars

TypeOK ==
    /\ \A i \in Invocations :
        /\ pc[i] \in {"idle", "expanding", "creating_repo", "creating_file", "posting",
                      "returned", "raised"}
        /\ args[i].tool \in {"none", "develop", "notion"}
    /\ \A n \in Names : repos[n].exists <=> repos[n].creators # {}

(* ------------------------------ properties ----------------------------- *)
Develop(i) == args[i].tool = "develop"
Terminated(i) == pc[i] \in {"returned", "raised"}
Name(i) == args[i].project_name
HasNotionUrl(i) == "notion_url" \in DOMAIN result[i]
CommitsBy(i, n) == {k \in 1..Len(repos[n].commits) : repos[n].commits[k].by = i}
CountCalls(i, api) == Cardinality({k \in 1..Len(calls[i]) : calls[i][k].api = api})
RequiredCalls == {MessagesCreate, CreateRepo, CreateFile}
Order == <<MessagesCreate, CreateRepo, CreateFile, RequestsPost>>

(* C1: an invocation of develop_and_create_project with create_notion_page *)
(* true that returns while NOTION_API_KEY or NOTION_DATABASE_ID is unset   *)
(* has created the repository and returns notion_url equal to the          *)
(* sentinel "Notion integration not configured".                           *)
C1_SentinelWhenNotConfigured ==
    \A i \in Invocations :
        (Develop(i) /\ pc[i] = "returned" /\ args[i].create_notion_page /\ ~Configured)
            => /\ repos[Name(i)].exists
               /\ HasNotionUrl(i)
               /\ result[i].notion_url = NotConfigured

(* C2: create_notion_project_page never raises: once the tracking-page     *)
(* request has been issued the invocation is never ended by an exception.  *)
C2_NotionNeverRaises ==
    \A i \in Invocations : Issued(i, RequestsPost) => pc[i] # "raised"

(* C3: fail-fast.  When the completion call, the repository creation or    *)
(* the README commit of an invocation failed, that call is the last one    *)
(* the invocation ever issued, the invocation ends with the exception and  *)
(* without a result; after a failed repository creation there is no        *)
(* tracking-page call, after a failed completion no repository.            *)
C3_FailFast ==
    \A i \in Invocations :
        Develop(i) =>
            \A k \in 1..Len(calls[i]) :
                (calls[i][k].api \in RequiredCalls /\ calls[i][k].outcome = "error")
                    => /\ k = Len(calls[i])
                       /\ pc[i] = "raised"
                       /\ raised[i] # "none"
                       /\ result[i] = NoResult
                       /\ ~Issued(i, RequestsPost)
                       /\ \A p \in pages : p.by # i
                       /\ calls[i][k].api = MessagesCreate
                            => /\ ~Issued(i, CreateRepo)
                               /\ \A n \in Names : i \notin repos[n].creators
                       /\ calls[i][k].api = CreateRepo
                            => /\ ~Issued(i, CreateFile)
                               /\ \A n \in Names : i \notin repos[n].creators /\ CommitsBy(i, n) = {}

C3_Witness ==
    \E i \in Invocations :
        /\ Develop(i) /\ Failed(i, CreateRepo) /\ pc[i] = "raised"
        /\ args[i].create_notion_page /\ Configured

(* C4: an invocation with create_notion_page false never has a notion_url  *)
(* key in its result and never issues a tracking-page request, whatever    *)
(* the Notion environment variables are.                                   *)
C4_NoNotionWhenDisabled ==
    \A i \in Invocations :
        (Develop(i) /\ ~args[i].create_notion_page)
            => /\ ~HasNotionUrl(i)
               /\ ~Issued(i, RequestsPost)
               /\ \A p \in pages : p.by # i

C4_Witness ==
    \E i \in Invocations :
        /\ Develop(i) /\ ~args[i].create_notion_page /\ pc[i] = "returned"
        /\ Configured

(* C5: when the tracking-page request was answered with a non-success      *)
(* status, the invocation returns status "success", the repository URL,    *)
(* the specification and a notion_url made of the diagnostic text          *)
(* followed by that status code.                                           *)
C5_ErrorStatusIsData ==
    \A i \in Invocations :
        (Develop(i) /\ response[i].status_code \notin {0, StatusOK})
            => /\ pc[i] = "returned"
               /\ raised[i] = "none"
               /\ result[i].status = "success"
               /\ result[i].github_url = HtmlUrl(Name(i))
               /\ result[i].spec = developed_spec[i]
               /\ result[i].spec \in Texts
               /\ HasNotionUrl(i)
               /\ result[i].notion_url =
                    "Error creating Notion page: " \o ToString(response[i].status_code)
               /\ \A c \in ErrorCodes \ {response[i].status_code} :
                    result[i].notion_url # "Error creating Notion page: " \o ToString(c)

C5_Witness ==
    \E i \in Invocations :
        Develop(i) /\ pc[i] = "returned" /\ response[i].status_code \in ErrorCodes

(* C6: the external calls of one invocation are issued in the order        *)
(* completion, repository creation, README commit, tracking-page request;  *)
(* each only after its predecessor was answered successfully, never two in *)
(* flight; the commit carries the completion's text and the tracking-page  *)
(* request, issued only when enabled and configured, the repository URL.   *)
C6_FixedOrder ==
    \A i \in Invocations :
        Develop(i) =>
            /\ Len(calls[i]) <= Len(Order)
            /\ Cardinality(InFlight(i)) <= 1
            /\ \A k \in 1..Len(calls[i]) :
                /\ calls[i][k].api = Order[k]
                /\ k > 1 => calls[i][k - 1].outcome = "ok"
                /\ calls[i][k].api = MessagesCreate => calls[i][k].payload = args[i].idea
                /\ calls[i][k].api = CreateRepo => calls[i][k].payload = NameStr(Name(i))
                /\ calls[i][k].api = CreateFile
                    => /\ calls[i][k].payload = developed_spec[i]
                       /\ developed_spec[i] \in Texts
                /\ calls[i][k].api = RequestsPost
                    => /\ calls[i][k].payload = HtmlUrl(Name(i))
                       /\ repos[Name(i)].creators = {i}
                       /\ args[i].create_notion_page
                       /\ Configured

C6_Witness ==
    \E i \in Invocations :
        Develop(i) /\ Len(calls[i]) = 4 /\ calls[i][4].outcome = "ok" /\ pc[i] = "returned"

(* C7: no invocation issues any external call more than once, and an       *)
(* invocation that returned a result issued exactly one successful         *)
(* repository creation and exactly one successful README.md commit, which  *)
(* is the only commit of its repository.                                   *)
C7_ExactlyOnce ==
    \A i \in Invocations :
        /\ \A api \in {MessagesCreate, CreateRepo, CreateFile, RequestsPost} :
                CountCalls(i, api) <= 1
        /\ (Develop(i) /\ pc[i] = "returned")
            => /\ CountCalls(i, CreateRepo) = 1
               /\ CountCalls(i, CreateFile) = 1
               /\ ~Failed(i, CreateRepo) /\ ~Failed(i, CreateFile)
               /\ repos[Name(i)].creators = {i}
               /\ Len(repos[Name(i)].commits) = 1
               /\ repos[Name(i)].commits[1].by = i
               /\ repos[Name(i)].commits[1].path = "README.md"

C7_Witness ==
    \E i \in Invocations :
        Develop(i) /\ pc[i] = "returned" /\ \E j \in Invocations : Failed(j, RequestsPost)

SoftFailed(i) ==
    /\ Develop(i)
    /\ HasNotionUrl(i)
    /\ \/ result[i].notion_url = NotConfigured
       \/ \E c \in ErrorCodes : result[i].notion_url = ErrorString(c)

C9_NoRollback ==
    \A i \in Invocations :
        SoftFailed(i)
            => /\ pc[i] = "returned"
               /\ raised[i] = "none"
               /\ result[i].status = "success"
               /\ repos[Name(i)].exists
               /\ repos[Name(i)].creators = {i}
               /\ repos[Name(i)].readme = result[i].spec
               /\ repos[Name(i)].commits = <<[by |-> i, path |-> "README.md",
                                              message |-> CommitMessage,
                                              content |-> result[i].spec]>>
               /\ result[i].github_url = HtmlUrl(Name(i))

C9_Witness ==
    \E i \in Invocations :
        /\ SoftFailed(i) /\ response[i].status_code \in ErrorCodes
        /\ \E j \in Invocations : j # i /\ Terminated(j) /\ Name(j) = Name(i)

(* C10 as stated: when the README commit failed after the repository was   *)
(* created, the invocation has no result and no tracking-page call, the    *)
(* repository remains without the specification, no invocation returned a  *)
(* result for it, and every later finished invocation with that project    *)
(* name failed with the duplicate-name error.                              *)
Orphaned(i) == Develop(i) /\ Failed(i, CreateFile)

====
